---- MODULE Spec2Model ----
(***************************************************************************)
(* A model of the movie request bot: channel indexing (handlers.py),       *)
(* the catalog store (database.py), text search and download buttons       *)
(* (handlers.py) and file delivery (utils.py).                             *)
(*                                                                         *)
(* Python strings are sequences of one-character strings, so that          *)
(* replace/split/strip/isdigit/int/lower are computed, not assumed.        *)
(***************************************************************************)
EXTENDS Integers, Sequences, FiniteSets, TLC

\* Python None where a string is expected: the model writes the empty string
\* (the code only ever tests such values for truth, and both are false)
NoneStr == <<>>

(***************************************************************************)
(* Python str operations                                                   *)
(***************************************************************************)
Digits == {"0", "1", "2", "3", "4", "5", "6", "7", "8", "9"}

Whitespace == {" "}

DigitVal(c) ==
  CASE c = "0" -> 0 [] c = "1" -> 1 [] c = "2" -> 2 [] c = "3" -> 3
    [] c = "4" -> 4 [] c = "5" -> 5 [] c = "6" -> 6 [] c = "7" -> 7
    [] c = "8" -> 8 [] c = "9" -> 9

\* str.lower() on one character (the upper-case letters the model uses)
LowerChar(c) ==
  CASE c = "T" -> "t" [] c = "H" -> "h" [] c = "E" -> "e" [] c = "M" -> "m"
    [] c = "K" -> "k" [] c = "B" -> "b" [] c = "S" -> "s"
    [] OTHER -> c

Lower(s) == [i \in 1..Len(s) |-> LowerChar(s[i])]

StartsWith(s, p) == Len(s) >= Len(p) /\ SubSeq(s, 1, Len(p)) = p

\* `sub in s`
Contains(s, sub) ==
  \E i \in 1..(Len(s) - Len(sub) + 1) : SubSeq(s, i, i + Len(sub) - 1) = sub

\* s.replace(old, new): non-overlapping occurrences, left to right, one pass
RECURSIVE Replace(_, _, _)
Replace(s, old, new) ==
  IF Len(s) < Len(old) THEN s
  ELSE IF SubSeq(s, 1, Len(old)) = old
       THEN new \o Replace(SubSeq(s, Len(old) + 1, Len(s)), old, new)
       ELSE <<s[1]>> \o Replace(Tail(s), old, new)

\* s.split(sep) for a one-character separator: empty segments are kept
RECURSIVE SplitFrom(_, _, _)
SplitFrom(s, sep, cur) ==
  IF s = <<>> THEN <<cur>>
  ELSE IF s[1] = sep THEN <<cur>> \o SplitFrom(Tail(s), sep, <<>>)
       ELSE SplitFrom(Tail(s), sep, Append(cur, s[1]))

Split(s, sep) == SplitFrom(s, sep, <<>>)

\* s.split(): runs of whitespace separate, empty tokens are dropped
RECURSIVE SplitWsFrom(_, _)
SplitWsFrom(s, cur) ==
  IF s = <<>> THEN (IF cur = <<>> THEN <<>> ELSE <<cur>>)
  ELSE IF s[1] \in Whitespace
       THEN (IF cur = <<>> THEN <<>> ELSE <<cur>>) \o SplitWsFrom(Tail(s), <<>>)
       ELSE SplitWsFrom(Tail(s), Append(cur, s[1]))

SplitWs(s) == SplitWsFrom(s, <<>>)

RECURSIVE LStrip(_)
LStrip(s) == IF s # <<>> /\ s[1] \in Whitespace THEN LStrip(Tail(s)) ELSE s

RECURSIVE RStrip(_)
RStrip(s) ==
  IF s # <<>> /\ s[Len(s)] \in Whitespace THEN RStrip(SubSeq(s, 1, Len(s) - 1)) ELSE s

\* s.strip()
Strip(s) == RStrip(LStrip(s))

\* s.isdigit()
IsDigit(s) == s # <<>> /\ \A i \in 1..Len(s) : s[i] \in Digits

\* int(s) for a string of decimal digits
RECURSIVE IntOf(_)
IntOf(s) ==
  IF s = <<>> THEN 0 ELSE 10 * IntOf(SubSeq(s, 1, Len(s) - 1)) + DigitVal(s[Len(s)])

\* sep.join(parts)
RECURSIVE Join(_, _)
Join(parts, sep) ==
  IF parts = <<>> THEN <<>>
  ELSE IF Len(parts) = 1 THEN parts[1]
       ELSE parts[1] \o sep \o Join(Tail(parts), sep)

\* str(n) for an integer
RECURSIVE NatStr(_)
NatStr(n) ==
  LET d == <<"0", "1", "2", "3", "4", "5", "6", "7", "8", "9">>[(n % 10) + 1]
  IN IF n < 10 THEN <<d>> ELSE NatStr(n \div 10) \o <<d>>

Str(n) == IF n < 0 THEN <<"-">> \o NatStr(0 - n) ELSE NatStr(n)

RECURSIVE Concat(_)
Concat(ss) == IF ss = <<>> THEN <<>> ELSE ss[1] \o Concat(Tail(ss))

\* the sequences over S of length at most n
SeqsUpTo(S, n) == UNION {[1..k -> S] : k \in 0..n}

(***************************************************************************)
(* Filename parsing (Title_Year_Quality.mkv)                               *)
(***************************************************************************)
DotMkv == <<".", "m", "k", "v">>

Unknown == <<"U", "n", "k", "n", "o", "w", "n">>

\* batch_index: clean_name, title, year, quality
BatchParseMut(file_name) ==
  LET clean_name == Split(Replace(file_name, DotMkv, <<>>), "_")
  IN [title   |-> Strip(Replace(clean_name[1], <<".">>, <<" ">>)),
      year    |-> IF Len(clean_name) > 1 /\ IsDigit(clean_name[2])
                  THEN IntOf(clean_name[2]) ELSE 0,
      quality |-> IF Len(clean_name) > 1 THEN clean_name[Len(clean_name)] ELSE Unknown]

BatchParse(file_name) ==
  LET clean_name == Split(Replace(file_name, DotMkv, <<>>), "_")
  IN [title   |-> Strip(Replace(clean_name[1], <<".">>, <<" ">>)),
      year    |-> IF Len(clean_name) > 1 /\ IsDigit(clean_name[2])
                  THEN IntOf(clean_name[2]) ELSE 0,
      quality |-> IF Len(clean_name) > 2 THEN clean_name[3] ELSE Unknown]

\* handle_forwarded_message (single pass): clean_name, title, year, quality
SingleParse(file_name) ==
  LET clean_name == Split(Replace(file_name, DotMkv, <<>>), "_")
  IN [title   |-> Strip(Replace(clean_name[1], <<".">>, <<" ">>)),
      year    |-> IF Len(clean_name) > 1 /\ IsDigit(clean_name[2])
                  THEN IntOf(clean_name[2]) ELSE 0,
      quality |-> IF Len(clean_name) > 2 THEN clean_name[3] ELSE Unknown]

\* language keyword detection on the lower-cased file name
DetectLanguage(file_name) ==
  LET name_lower == Lower(file_name)
  IN IF Contains(name_lower, <<"t", "a", "m", "i", "l">>) THEN <<"t", "a", "m", "i", "l">>
     ELSE IF Contains(name_lower, <<"e", "n", "g", "l", "i", "s", "h">>)
          THEN <<"e", "n", "g", "l", "i", "s", "h">>
     ELSE IF Contains(name_lower, <<"h", "i", "n", "d", "i">>) THEN <<"h", "i", "n", "d", "i">>
     ELSE NoneStr

(***************************************************************************)
(* Bounds                                                                  *)
(***************************************************************************)
\* file names of the parsing specification are built from at most this many pieces
MaxPieces == 5

\* indexing runs started in one behaviour
MaxRuns == 2

\* batch_size of batch_index (100 in the source), scaled to the model's channels
BatchSize == 2

\* search queries are built from at most this many tokens
MaxTokens == 3

\* the limit of search_movies' find (50 in the source), scaled to the model's catalog
ResultLimit == 2

NamePieces == {<<"a">>, <<"1">>, <<"2">>, <<"_">>, <<".">>, <<" ">>, DotMkv}

(***************************************************************************)
(* The world outside the bot: users, chats, channels and their messages    *)
(***************************************************************************)
Users == {1, 2}

BotId == 9

\* a supergroup the bot is a member of (its id also starts with -100)
GroupChat == -1003

MkvMime == "video/x-matroska"

S_batch == <<"b", "a", "t", "c", "h">>

S_single == <<"s", "i", "n", "g", "l", "e">>

S_kidHd == <<"k", "i", "d", "_", "1", "9", "2", "1", "_", "h", "d", ".", "m", "k", "v">>

S_kidTamil ==
  <<"k", "i", "d", ".", "T", "a", "m", "i", "l", "_", "2", "0", "2", "5", ".", "m", "k", "v">>

S_noTitle == <<"_", "2", "0", "2", "0", ".", "m", "k", "v">>

S_clip == <<"c", "l", "i", "p", ".", "m", "p", "4">>

\* a channel message as Telethon hands it over; size is in KiB
Msg(id, document, mime, has_name, file_name, doc_id, access_hash, size) ==
  [id |-> id, document |-> document, mime |-> mime, has_name |-> has_name,
   file_name |-> file_name, doc_id |-> doc_id, access_hash |-> access_hash, size |-> size]

\* client.iter_messages(channel): newest first
ChannelMessages(ch) ==
  CASE ch = -1001 ->
         << Msg(13, TRUE, "video/mp4", TRUE, S_clip, 504, 7, 900),
            Msg(12, TRUE, MkvMime, TRUE, S_kidTamil, 502, 7, 2097152),
            Msg(11, TRUE, MkvMime, TRUE, S_kidHd, 501, 7, 716800) >>
    [] ch = -1002 ->
         << Msg(11, TRUE, MkvMime, TRUE, S_kidHd, 501, 7, 716800),
            Msg(14, FALSE, "", FALSE, <<>>, 0, 0, 0),
            Msg(13, TRUE, MkvMime, FALSE, <<>>, 505, 7, 1024),
            Msg(12, TRUE, MkvMime, TRUE, S_noTitle, 503, 7, 1024) >>
    [] ch = -1004 ->
         << Msg(21, TRUE, MkvMime, FALSE, <<>>, 506, 7, 1024) >>
    [] OTHER -> <<>>

\* where a message was forwarded from: not forwarded, from a user (no
\* forward_from_chat), or from a chat of some type
NotForwarded == [forwarded |-> FALSE, has_chat |-> FALSE, type |-> "", id |-> 0]

FromUser == [forwarded |-> TRUE, has_chat |-> FALSE, type |-> "", id |-> 0]

FromChannel(ch) == [forwarded |-> TRUE, has_chat |-> TRUE, type |-> "channel", id |-> ch]

\* message texts; NoText stands for a message without text
NoText == <<"\\0">>

S_BATCH == <<"B", "A", "T", "C", "H">>

S_kid == <<"k", "i", "d">>

\* the message updates of the model: the chat is the user's private chat or the
\* supergroup; text and origin as above
Updates ==
  {[private |-> TRUE, text |-> S_batch, origin |-> NotForwarded],
   [private |-> TRUE, text |-> S_single, origin |-> NotForwarded],
   [private |-> FALSE, text |-> S_batch, origin |-> NotForwarded],
   [private |-> TRUE, text |-> S_BATCH, origin |-> FromUser],
   [private |-> TRUE, text |-> NoText, origin |-> FromUser],
   [private |-> FALSE, text |-> NoText, origin |-> FromUser],
   [private |-> TRUE, text |-> S_kid, origin |-> FromChannel(-1001)],
   [private |-> FALSE, text |-> NoText, origin |-> FromChannel(-1001)]}
  \cup {[private |-> TRUE, text |-> NoText, origin |-> FromChannel(ch)] :
          ch \in {-1001, -1002, -1004, -2001}}

\* what get_chat_administrators may answer
AdminLists == {{BotId, 1}, {BotId, 1, 2}, {BotId}, {1, 2}}

VARIABLES
  pName,      \* SpecParse: the file name under test
  pDone,      \* SpecParse: both indexers have parsed pName
  pBatch,     \* SpecParse: fields computed by the batch indexer
  pSingle,    \* SpecParse: fields computed by the single-pass indexer
  user_data,  \* context.user_data per user: indexing, index_channel_id, index_mode
  catalog,    \* movies_collection, in insertion order; a record's _id is its position
  uniqueIndex,\* the (file_id, message_id) unique index exists in the database
  textIndex,  \* the text index on title exists in the database
  envSet,     \* TELEGRAM_API_ID, TELEGRAM_API_HASH, TELETHON_SESSION_STRING are all set
  run,        \* the indexing run in progress inside handle_forwarded_message
  runs,       \* indexing runs started so far
  reply,      \* the text of the last reply or edit the bot made
  hist,       \* per user: 1 after /index, 2 after a mode text following it
  started,    \* main() got past the database check and the bot is polling
  now,        \* time.time(), in seconds
  recent_searches, \* context.bot_data['recent_searches']: per chat, the last (query, time)
  search,     \* what the last search_movie call did
  press,      \* what the last button_callback call did
  pf,         \* the process_file call in progress, or the last one
  users,      \* users_collection: per chat id, the preference record
  conv,       \* per user, the state of the settings conversation
  call,       \* the last direct call of update_user_settings: arguments and outcome
  note,       \* per user, the last update of the settings handlers and the reply to it
  life        \* main(): where it is, what is running and what it has stopped

parseVars == <<pName, pDone, pBatch, pSingle>>

botVars == <<user_data, catalog, uniqueIndex, textIndex, envSet, run, runs, reply, hist, started>>

userVars == <<now, recent_searches, search, press, pf>>

prefVars == <<users, conv, call, note>>

vars == <<pName, pDone, pBatch, pSingle, user_data, catalog, uniqueIndex, textIndex, envSet, run,
          runs, reply, hist, started, now, recent_searches, search, press, pf,
          users, conv, call, note, life>>

NoFields == [title |-> <<>>, year |-> 0, quality |-> <<>>]

NoUserData == [indexing |-> FALSE, index_channel_id |-> NoneStr, index_mode |-> NoneStr]

IdleRun ==
  [active |-> FALSE, user |-> 0, mode |-> NoneStr, channel |-> NoneStr, admins |-> {},
   hist |-> 0, total_files |-> 0, duplicate |-> 0, errors |-> 0, unsupported |-> 0,
   current |-> 0, batch_number |-> 0, movie_batch |-> <<>>, mid_bound |-> FALSE,
   connected |-> FALSE]

\* year=None
NoneYear == -1

NoSearch ==
  [outcome |-> "", query |-> <<>>, movie_name |-> <<>>, year |-> NoneYear,
   language |-> NoneStr, called |-> FALSE, found |-> <<>>, movies |-> <<>>,
   total_results |-> 0, buttons |-> <<>>]

NoPress ==
  [user |-> 0, data |-> <<>>, answers |-> 0, answer_text |-> "", reply |-> "",
   document_to |-> 0]

NoRecent == [set |-> FALSE, query |-> <<>>, time |-> 0]

\* process_file: its arguments, what it found configured, where it is and what it did
NoCall ==
  [pc |-> "idle", chat_id |-> 0, movie_id |-> <<>>, title |-> <<>>, quality |-> <<>>,
   thumb_file_id |-> NoneStr, prefix |-> NoneStr, caption |-> NoneStr,
   telethon_client |-> FALSE, attempt |-> 0, attempts_made |-> 0,
   temp_file_path |-> FALSE, api_downloaded |-> FALSE, loop_exit |-> "",
   telethon_lookup |-> FALSE, telethon_attempted |-> FALSE, telethon_downloaded |-> FALSE,
   config_message |-> FALSE, config_delivered |-> FALSE, caption_text |-> <<>>,
   thumb |-> FALSE, thumb_error |-> FALSE, file_name |-> <<>>,
   document_sent |-> FALSE, result |-> "none"]

\* Python values of the preference arguments: None, a string, an integer
PyNone == [t |-> "None", s |-> <<>>, n |-> 0]

PyStr(s) == [t |-> "str", s |-> s, n |-> 0]

PyInt(n) == [t |-> "int", s |-> <<>>, n |-> n]

\* the truth value Python gives such a value
Truthy(v) == (v.t = "str" /\ v.s # <<>>) \/ (v.t = "int" /\ v.n # 0)

\* no document for the chat; a key that a document lacks reads as None
NoUser == [stored |-> FALSE, thumbnail_file_id |-> PyNone, prefix |-> PyNone, caption |-> PyNone]

NoUpdate ==
  [made |-> FALSE, chat_id |-> PyNone, thumbnail_file_id |-> PyNone, prefix |-> PyNone,
   caption |-> PyNone, raised |-> ""]

\* main() before application.initialize(): nothing runs, the signal handlers are the
\* ones installed by the module before it runs main()
NoLife ==
  [pc |-> "initialize", initialized |-> FALSE, was_initialized |-> FALSE, running |-> FALSE,
   polling |-> FALSE, cleanup_task |-> "unbound", handler |-> "handle_shutdown",
   signals |-> <<>>, stops |-> <<>>]

\* no update handled yet for a user
NoNote == [update |-> "", reply |-> ""]

PrefIdle ==
  /\ users = [u \in Users |-> NoUser]
  /\ conv = [u \in Users |-> "END"]
  /\ call = NoUpdate
  /\ note = [u \in Users |-> NoNote]

UserIdle ==
  /\ PrefIdle
  /\ life = NoLife
  /\ pf = NoCall
  /\ now = 0
  /\ recent_searches = [u \in Users |-> NoRecent]
  /\ search = NoSearch
  /\ press = NoPress

ParseIdle == pName = <<>> /\ pDone = FALSE /\ pBatch = NoFields /\ pSingle = NoFields

BotIdle ==
  /\ user_data = [u \in Users |-> NoUserData]
  /\ catalog = <<>>
  /\ uniqueIndex = FALSE
  /\ textIndex = FALSE
  /\ envSet = FALSE
  /\ run = IdleRun
  /\ runs = 0
  /\ reply = ""
  /\ hist = [u \in Users |-> 0]
  /\ started = FALSE

(***************************************************************************)
(* SpecParse: the filename parser on every bounded file name               *)
(***************************************************************************)
InitParse ==
  /\ pName \in {Concat(ps) : ps \in SeqsUpTo(NamePieces, MaxPieces)}
  /\ pDone = FALSE
  /\ pBatch = NoFields
  /\ pSingle = NoFields
  /\ BotIdle
  /\ UserIdle

ParseName ==
  /\ ~pDone
  /\ pDone' = TRUE
  /\ pBatch' = BatchParse(pName)
  /\ pSingle' = SingleParse(pName)
  /\ UNCHANGED pName
  /\ UNCHANGED <<botVars, userVars, prefVars, life>>

NextParse == ParseName

SpecParse == InitParse /\ [][NextParse]_vars

(***************************************************************************)
(* database.py: the movies collection                                      *)
(***************************************************************************)
\* the file identifier both indexers build: "<document id>:<access hash>"
FileId(msg) == Str(msg.doc_id) \o <<":">> \o Str(msg.access_hash)

\* the size string both indexers build ("%.2fGB" or "%.2fMB"), from a size in KiB
FileSize(size) ==
  LET gb == size >= 1024 * 1024
      unit == IF gb THEN 1024 * 1024 ELSE 1024
      h == (2 * 100 * size + unit) \div (2 * unit)
      frac == IF h % 100 < 10 THEN <<"0">> \o Str(h % 100) ELSE Str(h % 100)
  IN Str(h \div 100) \o <<".">> \o frac \o (IF gb THEN <<"G", "B">> ELSE <<"M", "B">>)

\* a stored document; language = NoneStr stands for a document without the key
MovieDoc(id, title, year, quality, file_size, file_id, message_id, language, channel_id) ==
  [id |-> id, title |-> title, year |-> year, quality |-> quality,
   file_size |-> file_size, file_id |-> file_id, message_id |-> message_id,
   language |-> language, channel_id |-> channel_id]

HasKey(cat, file_id, message_id) ==
  \E i \in 1..Len(cat) : cat[i].file_id = file_id /\ cat[i].message_id = message_id

\* insert_one: DuplicateKeyError exactly when the unique index exists and the key is stored
DuplicateKeyError(cat, doc) == uniqueIndex /\ HasKey(cat, doc.file_id, doc.message_id)

\* add_movie: validation, insert, the id or None (0); raised names the exception
AddMovie(cat, title, year, quality, file_size, file_id, message_id, language, channel_id) ==
  LET doc == MovieDoc(Len(cat) + 1, title, year, quality, file_size, file_id, message_id,
                      IF language # NoneStr THEN Lower(language) ELSE NoneStr, channel_id)
  IN IF file_id = <<>> \/ title = <<>>
     THEN [raised |-> "ValueError", id |-> 0, catalog |-> cat]
     ELSE IF DuplicateKeyError(cat, doc)
          THEN [raised |-> "", id |-> 0, catalog |-> cat]
          ELSE [raised |-> "", id |-> doc.id, catalog |-> Append(cat, doc)]

\* add_movies_batch: called by batch_index, not defined in database.py.  Modelled
\* from its use: the documents are inserted as built, those the unique index rejects
\* are left out, and the ids of the inserted ones are returned.
RECURSIVE AddMoviesBatchFrom(_, _, _)
AddMoviesBatchFrom(cat, docs, ids) ==
  IF docs = <<>> THEN [inserted_ids |-> ids, catalog |-> cat]
  ELSE LET doc == [docs[1] EXCEPT !.id = Len(cat) + 1]
       IN IF DuplicateKeyError(cat, doc)
          THEN AddMoviesBatchFrom(cat, Tail(docs), ids)
          ELSE AddMoviesBatchFrom(Append(cat, doc), Tail(docs), Append(ids, doc.id))

AddMoviesBatch(cat, docs) == AddMoviesBatchFrom(cat, docs, <<>>)

(***************************************************************************)
(* handlers.py: /index, mode selection and the forwarded message           *)
(***************************************************************************)
\* max_messages of both indexers
MaxMessages == 1000

\* int(s) for a decimal string with an optional sign
ParseInt(s) == IF s # <<>> /\ s[1] = "-" THEN 0 - IntOf(Tail(s)) ELSE IntOf(s)

Modes == {S_batch, S_single}

SetUserData(u, indexing, channel_id, mode) ==
  [user_data EXCEPT ![u] = [indexing |-> indexing, index_channel_id |-> channel_id,
                            index_mode |-> mode]]

\* check_db_connection: imported by main.py, not defined in database.py.  Modelled
\* from its use in main(): it reports whether the database answers, nothing else.
CheckDbConnection(healthy) == healthy

\* main() up to start_polling: the database check, then the handlers are registered.
\* init_db is not called on this path (nor anywhere else), so the indexes of the
\* database are as they were found.
Main ==
  /\ ~started
  /\ \E healthy \in BOOLEAN : started' = CheckDbConnection(healthy)
  /\ UNCHANGED <<user_data, catalog, uniqueIndex, textIndex, envSet, run, runs, reply, hist, parseVars, life, userVars, prefVars>>

\* updates are handled one at a time (the Application is built without
\* concurrent_updates): no handler starts while a run is in progress
NoHandlerRunning == started /\ ~run.active

\* /index
Index(u) ==
  /\ NoHandlerRunning
  /\ user_data' = SetUserData(u, TRUE, NoneStr, NoneStr)
  /\ reply' = "Please forward a message from a channel where I am an admin"
  /\ hist' = [hist EXCEPT ![u] = 1]
  /\ UNCHANGED <<catalog, uniqueIndex, textIndex, envSet, run, runs, started, parseVars, life, userVars, prefVars>>

\* the channel id handle_forwarded_message derives from the update
ForwardedChannelId(chat, origin) ==
  IF origin.has_chat /\ origin.type = "channel" THEN Str(origin.id)
  ELSE IF StartsWith(Str(chat), <<"-", "1", "0", "0">>) THEN Str(chat)
  ELSE NoneStr

ValidChannelId(channel_id) == StartsWith(channel_id, <<"-", "1", "0", "0">>)

BotIsAdmin(admins) == \E a \in admins : a = BotId

UserIsAdminMut(admins, chat_id) == TRUE

UserIsAdmin(admins, chat_id) == \E a \in admins : a = chat_id

StartOutcomes ==
  {"ok", "FloodWaitError", "ChannelPrivateError", "AuthKeyError", "RPCError", "Exception"}

StartFailureReply(outcome) ==
  CASE outcome = "FloodWaitError" -> "Flood wait error"
    [] outcome = "ChannelPrivateError" -> "I don't have access to this channel"
    [] outcome = "AuthKeyError" -> "Authentication failed"
    [] outcome = "RPCError" -> "Telegram API error"
    [] OTHER -> "Unexpected error"

\* the mode text a user sends after /index (history for the ordering of events)
NoteModeText(u, text) ==
  IF text # NoText /\ Lower(text) \in Modes /\ hist[u] = 1
  THEN [hist EXCEPT ![u] = 2] ELSE hist

\* handle_forwarded_message up to the start of the scan.  The update reaches it
\* when its text is exactly 'batch' or 'single' or when it is a forwarded message.
\* get_chat_administrators answers with a list of administrators or raises
\* TelegramError; client.start() succeeds or raises.
HandleForwardedMessage(u, chat, text, origin) ==
  LET ud == user_data[u]
      forwarded_channel_id == ForwardedChannelId(chat, origin)
      stay(r) == /\ reply' = r
                 /\ UNCHANGED <<user_data, run, runs>>
      reset(r) == /\ reply' = r
                  /\ user_data' = SetUserData(u, FALSE, NoneStr, NoneStr)
                  /\ UNCHANGED <<run, runs>>
      start(admins) ==
        /\ runs < MaxRuns
        /\ runs' = runs + 1
        /\ user_data' = SetUserData(u, TRUE, forwarded_channel_id, ud.index_mode)
        /\ run' = [IdleRun EXCEPT !.active = TRUE, !.connected = TRUE,
                                  !.user = u, !.mode = ud.index_mode,
                                  !.channel = forwarded_channel_id, !.admins = admins,
                                  !.hist = hist[u]]
        /\ reply' = "Starting indexing process..."
  IN
  /\ NoHandlerRunning
  /\ text \in Modes \/ origin.forwarded
  /\ UNCHANGED <<catalog, uniqueIndex, textIndex, envSet, started, parseVars, life, userVars, prefVars>>
  /\ IF ~ud.indexing THEN stay(reply)
     ELSE IF ud.index_mode = NoneStr THEN
       IF text = NoText THEN stay("An error occurred. Please try again later.")
       ELSE IF Lower(text) \in Modes THEN
         /\ user_data' = SetUserData(u, TRUE, ud.index_channel_id, Lower(text))
         /\ reply' = "indexing selected. Now forward a message from the channel to index."
         /\ UNCHANGED <<run, runs>>
       ELSE stay("Please specify 'batch' or 'single' for indexing mode.")
     ELSE IF ~origin.forwarded THEN stay("Please forward a message from a channel.")
     ELSE IF forwarded_channel_id = NoneStr
       THEN stay("Please forward a message directly from a channel.")
     ELSE IF ~ValidChannelId(forwarded_channel_id) THEN stay("Invalid channel ID.")
     ELSE \E adminsOutcome \in {"ok", "TelegramError"} :
       IF adminsOutcome = "TelegramError" THEN reset("Error accessing channel")
       ELSE \E admins \in AdminLists :
         IF ~BotIsAdmin(admins) THEN stay("I am not an admin of this channel.")
         ELSE IF ~UserIsAdmin(admins, chat) THEN stay("Only channel admins can index movies.")
         ELSE IF ~envSet THEN
           /\ user_data' = SetUserData(u, TRUE, forwarded_channel_id, ud.index_mode)
           /\ reply' = "Configuration error: Missing environment variables"
           /\ UNCHANGED <<run, runs>>
         ELSE \E startOutcome \in StartOutcomes :
           IF startOutcome # "ok" THEN reset(StartFailureReply(startOutcome))
           ELSE start(admins)
  /\ hist' = IF run'.active THEN [hist EXCEPT ![u] = 0] ELSE NoteModeText(u, text)

\* the messages client.iter_messages(int(channel_id), limit=max_messages) yields
RunMessages ==
  LET all == ChannelMessages(ParseInt(run.channel))
  IN IF Len(all) > MaxMessages THEN SubSeq(all, 1, MaxMessages) ELSE all

IsMkvMut(msg) == msg.document

IsMkv(msg) == msg.document /\ msg.mime = MkvMime

\* the end of handle_forwarded_message: report (or error reply), then the finally block
EndRun(r, text) ==
  /\ run' = [r EXCEPT !.active = FALSE, !.connected = FALSE]
  /\ reply' = text
  /\ user_data' = SetUserData(run.user, FALSE, NoneStr, NoneStr)

\* one iteration of the single-pass loop
SingleStep ==
  LET msg == RunMessages[run.current + 1]
      r0 == [run EXCEPT !.current = run.current + 1]
      fields == SingleParse(msg.file_name)
      added == AddMovie(catalog, fields.title, fields.year, fields.quality,
                        FileSize(msg.size), FileId(msg), msg.id,
                        DetectLanguage(msg.file_name), run.channel)
  IN
  /\ run.active /\ run.mode = S_single
  /\ user_data[run.user].indexing
  /\ run.current < Len(RunMessages)
  /\ UNCHANGED <<uniqueIndex, textIndex, envSet, runs, hist, started, parseVars, life, userVars, prefVars>>
  /\ IF ~IsMkv(msg) THEN
       /\ run' = [r0 EXCEPT !.unsupported = run.unsupported + 1]
       /\ UNCHANGED <<catalog, reply, user_data>>
     ELSE IF ~msg.has_name THEN
       \* AttributeError; the handler logs message_id, which may not be bound yet
       IF run.mid_bound
       THEN /\ run' = [r0 EXCEPT !.errors = run.errors + 1]
            /\ UNCHANGED <<catalog, reply, user_data>>
       ELSE /\ EndRun(r0, "Unexpected error")
            /\ UNCHANGED catalog
     ELSE IF added.raised # "" THEN
       /\ run' = [r0 EXCEPT !.errors = run.errors + 1, !.mid_bound = TRUE]
       /\ UNCHANGED <<catalog, reply, user_data>>
     ELSE
       /\ catalog' = added.catalog
       /\ run' = IF added.id # 0
                 THEN [r0 EXCEPT !.total_files = run.total_files + 1, !.mid_bound = TRUE]
                 ELSE [r0 EXCEPT !.duplicate = run.duplicate + 1, !.mid_bound = TRUE]
       /\ UNCHANGED <<reply, user_data>>

\* one iteration of the loop of batch_index
BatchStep ==
  LET msg == RunMessages[run.current + 1]
      r0 == [run EXCEPT !.current = run.current + 1,
                        !.batch_number = IF (run.current + 1) % BatchSize = 1
                                         THEN run.batch_number + 1 ELSE run.batch_number]
      fields == BatchParse(msg.file_name)
      movie_doc == MovieDoc(0, fields.title, fields.year, fields.quality,
                            FileSize(msg.size), FileId(msg), msg.id,
                            DetectLanguage(msg.file_name), run.channel)
      movie_batch == Append(run.movie_batch, movie_doc)
      flushed == AddMoviesBatch(catalog, movie_batch)
  IN
  /\ run.active /\ run.mode = S_batch
  /\ user_data[run.user].indexing
  /\ run.current < Len(RunMessages)
  /\ UNCHANGED <<uniqueIndex, textIndex, envSet, runs, hist, started, parseVars, life, userVars, prefVars>>
  /\ IF ~IsMkv(msg) THEN
       /\ run' = [r0 EXCEPT !.unsupported = run.unsupported + 1]
       /\ UNCHANGED <<catalog, reply, user_data>>
     ELSE IF ~msg.has_name THEN
       IF run.mid_bound
       THEN /\ run' = [r0 EXCEPT !.errors = run.errors + 1]
            /\ UNCHANGED <<catalog, reply, user_data>>
       ELSE \* the loop is left through `except Exception`; nothing more is inserted
            /\ EndRun([r0 EXCEPT !.errors = run.errors + 1], "indexing completed")
            /\ UNCHANGED catalog
     ELSE IF Len(movie_batch) >= BatchSize THEN
       /\ catalog' = flushed.catalog
       /\ run' = [r0 EXCEPT !.movie_batch = <<>>, !.mid_bound = TRUE,
                            !.total_files = run.total_files + Len(flushed.inserted_ids),
                            !.duplicate = run.duplicate + BatchSize - Len(flushed.inserted_ids)]
       /\ UNCHANGED <<reply, user_data>>
     ELSE
       /\ run' = [r0 EXCEPT !.movie_batch = movie_batch, !.mid_bound = TRUE]
       /\ UNCHANGED <<catalog, reply, user_data>>

\* the loop is over: the rest of the batch is inserted, the report is sent and the
\* finally block clears the session
FinishRun ==
  LET flushed == AddMoviesBatch(catalog, run.movie_batch)
  IN
  /\ run.active
  /\ run.current >= Len(RunMessages) \/ ~user_data[run.user].indexing
  /\ UNCHANGED <<uniqueIndex, textIndex, envSet, runs, hist, started, parseVars, life, userVars, prefVars>>
  /\ IF run.mode = S_batch /\ run.movie_batch # <<>>
     THEN /\ catalog' = flushed.catalog
          /\ EndRun([run EXCEPT !.movie_batch = <<>>,
                       !.total_files = run.total_files + Len(flushed.inserted_ids),
                       !.duplicate = run.duplicate + Len(run.movie_batch)
                                     - Len(flushed.inserted_ids)],
                    "indexing completed")
     ELSE /\ UNCHANGED catalog
          /\ EndRun(run, "indexing completed")

(***************************************************************************)
(* Spec: the bot                                                           *)
(***************************************************************************)
Init ==
  /\ ParseIdle
  /\ user_data = [u \in Users |-> NoUserData]
  /\ catalog = <<>>
  /\ uniqueIndex \in BOOLEAN
  /\ textIndex = FALSE   \* read by search_movies only: drawn where searches are made
  /\ envSet \in BOOLEAN
  /\ run = IdleRun
  /\ runs = 0
  /\ reply = ""
  /\ hist = [u \in Users |-> 0]
  /\ started = FALSE
  /\ UserIdle

Next ==
  \/ Main
  \/ \E u \in Users : Index(u)
  \/ \E u \in Users, m \in Updates :
       HandleForwardedMessage(u, IF m.private THEN u ELSE GroupChat, m.text, m.origin)
  \/ SingleStep
  \/ BatchStep
  \/ FinishRun

Spec == Init /\ [][Next]_vars

(***************************************************************************)
(* database.py: the preference records                                     *)
(***************************************************************************)
\* add_user: the upsert with $setOnInsert leaves a stored document as it is
AddUser(us, chat_id) ==
  IF us[chat_id].stored THEN us ELSE [us EXCEPT ![chat_id] = [NoUser EXCEPT !.stored = TRUE]]

\* update_user_settings: raised names the exception, users is the collection afterwards
UpdateUserSettings(us, chat_id, thumbnail_file_id, prefix, caption) ==
  IF chat_id.t # "int" THEN [raised |-> "ValueError", users |-> us]
  ELSE IF prefix.t \notin {"None", "str"} THEN [raised |-> "ValueError", users |-> us]
  ELSE IF caption.t \notin {"None", "str"} THEN [raised |-> "ValueError", users |-> us]
  ELSE IF thumbnail_file_id.t = "None" /\ prefix.t = "None" /\ caption.t = "None"
  THEN [raised |-> "", users |-> us]
  ELSE LET old == us[chat_id.n]
       IN [raised |-> "",
           users |-> [us EXCEPT ![chat_id.n] =
                        [stored |-> TRUE,
                         thumbnail_file_id |-> IF thumbnail_file_id.t # "None"
                                               THEN thumbnail_file_id
                                               ELSE old.thumbnail_file_id,
                         prefix |-> IF prefix.t # "None" THEN prefix ELSE old.prefix,
                         caption |-> IF caption.t # "None" THEN caption ELSE old.caption]]]

\* get_user_settings: a chat without a document is added and reads as three Nones
GetUserSettings(us, chat_id) ==
  [users |-> AddUser(us, chat_id),
   thumbnail_file_id |-> us[chat_id].thumbnail_file_id,
   prefix |-> us[chat_id].prefix,
   caption |-> us[chat_id].caption]

(***************************************************************************)
(* database.py: search_movies                                              *)
(***************************************************************************)
\* Python truth of a year argument: None and 0 are false
YearSet(year) == year # NoneYear /\ year # 0

Limit(seq, n) == IF Len(seq) > n THEN SubSeq(seq, 1, n) ELSE seq

\* the $text query built from the terms: every quoted term has to occur in the
\* title, compared word by word without regard to case
TextMatch(title, terms) ==
  LET words == SplitWs(title)
  IN \A k \in 1..Len(terms) : \E w \in 1..Len(words) : Lower(words[w]) = Lower(terms[k])

\* movies_collection.find(query), in insertion order
Find(cat, terms, year, language) ==
  SelectSeq(cat, LAMBDA r : /\ TextMatch(r.title, terms)
                            /\ (YearSet(year) => r.year = year)
                            /\ (language # NoneStr => r.language = Lower(language)))

SearchMoviesNoFallback(cat, movie_name, year, language) ==
  IF movie_name = <<>> THEN [raised |-> "ValueError", movies |-> <<>>]
  ELSE IF ~textIndex THEN [raised |-> "OperationFailure", movies |-> <<>>]
  ELSE [raised |-> "",
        movies |-> Limit(Find(cat, SplitWs(movie_name), year, language), ResultLimit)]

\* search_movies: validation, the query with all filters, then without the year.
\* A $text query on a collection without a text index is refused by the server.
SearchMovies(cat, movie_name, year, language) ==
  IF movie_name = <<>> THEN [raised |-> "ValueError", movies |-> <<>>]
  ELSE IF ~textIndex THEN [raised |-> "OperationFailure", movies |-> <<>>]
  ELSE LET terms == SplitWs(movie_name)
           movies == Limit(Find(cat, terms, year, language), ResultLimit)
       IN [raised |-> "",
           movies |-> IF movies = <<>> /\ YearSet(year)
                      THEN Limit(Find(cat, terms, NoneYear, language), ResultLimit)
                      ELSE movies]

\* get_movie_by_id: used by button_callback and process_file, not defined in
\* database.py.  Modelled from its use: the record with that id, if there is one.
GetMovieById(cat, movie_id) ==
  LET hits == SelectSeq(cat, LAMBDA r : Str(r.id) = movie_id)
  IN IF hits = <<>> THEN [found |-> FALSE, movie |-> MovieDoc(0, <<>>, 0, <<>>, <<>>, <<>>, 0, NoneStr, NoneStr)]
     ELSE [found |-> TRUE, movie |-> hits[1]]

(***************************************************************************)
(* handlers.py: search_movie                                               *)
(***************************************************************************)
LanguageTerms ==
  {<<"t", "a", "m", "i", "l">>, <<"e", "n", "g", "l", "i", "s", "h">>, <<"h", "i", "n", "d", "i">>}

\* the window of the rate limiter, in seconds
RateWindow == 30

\* list.remove(x): the first element equal to x goes
RECURSIVE RemoveFirst(_, _)
RemoveFirst(seq, x) ==
  IF seq = <<>> THEN <<>>
  ELSE IF seq[1] = x THEN Tail(seq) ELSE <<seq[1]>> \o RemoveFirst(Tail(seq), x)

\* the year loop over a copy of search_terms, left at the first four-digit term
RECURSIVE ExtractYearAnyDigits(_, _)
ExtractYearAnyDigits(copy, search_terms) ==
  IF copy = <<>> THEN [year |-> NoneYear, search_terms |-> search_terms]
  ELSE IF IsDigit(copy[1])
       THEN [year |-> IntOf(copy[1]), search_terms |-> RemoveFirst(search_terms, copy[1])]
       ELSE ExtractYearAnyDigits(Tail(copy), search_terms)

RECURSIVE ExtractYear(_, _)
ExtractYear(copy, search_terms) ==
  IF copy = <<>> THEN [year |-> NoneYear, search_terms |-> search_terms]
  ELSE IF IsDigit(copy[1]) /\ Len(copy[1]) = 4
       THEN [year |-> IntOf(copy[1]), search_terms |-> RemoveFirst(search_terms, copy[1])]
       ELSE ExtractYear(Tail(copy), search_terms)

\* the language loop over a copy of search_terms
RECURSIVE ExtractLanguage(_, _, _)
ExtractLanguage(copy, search_terms, language) ==
  IF copy = <<>> THEN [language |-> language, search_terms |-> search_terms]
  ELSE IF Lower(copy[1]) \in LanguageTerms
       THEN ExtractLanguage(Tail(copy), RemoveFirst(search_terms, copy[1]), Lower(copy[1]))
       ELSE ExtractLanguage(Tail(copy), search_terms, language)

\* query -> (movie_name, year, language) as search_movie passes them to the store
Tokenize(query) ==
  LET terms == SplitWs(query)
      y == ExtractYear(terms, terms)
      l == ExtractLanguage(y.search_terms, y.search_terms, NoneStr)
  IN [movie_name |-> Join(l.search_terms, <<" ">>), year |-> y.year, language |-> l.language]

S_download_ == <<"d", "o", "w", "n", "l", "o", "a", "d", "_">>

CallbackDataByTitle(movie) == S_download_ \o movie.title

\* callback_data of a result button
CallbackData(movie) == S_download_ \o Str(movie.id)

\* the text of a result button: "[size] title year language quality", stripped
ResultLine(movie, language) ==
  LET language_str == IF movie.language # NoneStr THEN movie.language ELSE language
      year_str == IF movie.year # 0 THEN Str(movie.year) ELSE <<>>
  IN Strip(<<"[">> \o movie.file_size \o <<"]", " ">> \o movie.title \o <<" ">> \o year_str
           \o <<" ">> \o language_str \o <<" ">> \o movie.quality)

ResultButtons(movies, language) ==
  [i \in 1..Len(movies) |-> [text |-> ResultLine(movies[i], language),
                             callback_data |-> CallbackData(movies[i])]]

\* search_movie: a private text message that is not a command
RateLimitedAnyQuery(last, query, current_time) ==
  last.set /\ current_time - last.time < RateWindow

\* the rate limiter: the chat has a record, of the same query, less than 30 s old
RateLimited(last, query, current_time) ==
  last.set /\ query = last.query /\ current_time - last.time < RateWindow

SearchMovie(chat_id, text) ==
  LET query == Strip(text)
      last == recent_searches[chat_id]
      t == Tokenize(query)
      first == SearchMovies(catalog, t.movie_name, t.year, t.language)
      movies == IF first.movies = <<>> /\ YearSet(t.year)
                THEN SearchMovies(catalog, t.movie_name, NoneYear, t.language).movies
                ELSE first.movies
      called == [NoSearch EXCEPT !.query = query, !.movie_name = t.movie_name,
                                 !.year = t.year, !.language = t.language,
                                 !.called = TRUE, !.found = first.movies]
  IN
  /\ started /\ ~run.active
  /\ UNCHANGED <<botVars, parseVars, life, prefVars, now, pf>>
  /\ press' = NoPress
  /\ IF RateLimited(last, query, now)
     THEN /\ search' = [NoSearch EXCEPT !.outcome = "Please wait before repeating the same search.",
                                        !.query = query]
          /\ UNCHANGED recent_searches
     ELSE /\ recent_searches' = [recent_searches EXCEPT ![chat_id] =
                                   [set |-> TRUE, query |-> query, time |-> now]]
          /\ search' =
               IF query = <<>>
               THEN [NoSearch EXCEPT !.outcome = "Please type a movie name to search (e.g., 'Mitra 2025')."]
               ELSE IF first.raised # ""
               THEN [called EXCEPT !.outcome = "Error occurred. Please try again later."]
               ELSE IF movies = <<>>
               THEN [called EXCEPT !.outcome = "No movies found. Try another search."]
               ELSE [called EXCEPT !.outcome = "results",
                                   !.movies = movies,
                                   !.total_results = Len(movies),
                                   !.buttons = ResultButtons(movies, t.language)]

(***************************************************************************)
(* handlers.py: button_callback                                            *)
(***************************************************************************)
\* the names bound in the namespace of handlers.py by its imports
HandlersImports ==
  {"os", "time", "logging", "asyncio", "Image", "InlineKeyboardButton",
   "InlineKeyboardMarkup", "TelegramError", "BadRequest", "ConversationHandler",
   "add_user", "update_user_settings", "get_user_settings", "add_movie",
   "add_movies_batch", "search_movies", "movies_collection", "fix_thumb",
   "NetworkError", "TelegramClient", "StringSession", "FloodWaitError",
   "ChannelPrivateError", "AuthKeyError", "RPCError", "ObjectId"}

\* button_callback: every callback query reaches it.  A name that handlers.py does
\* not bind raises NameError where it is used, inside the try block.
ButtonCallback(user_id, data) ==
  LET movie_id == SubSeq(data, Len(S_download_) + 1, Len(data))
      got == GetMovieById(catalog, movie_id)
      done(answer_text, reply_text, to) ==
        press' = [user |-> user_id, data |-> data, answers |-> 1,
                  answer_text |-> answer_text, reply |-> reply_text, document_to |-> to]
  IN
  /\ started /\ ~run.active
  /\ UNCHANGED <<botVars, parseVars, life, prefVars, now, recent_searches, pf>>
  /\ search' = NoSearch
  /\ IF ~StartsWith(data, S_download_) THEN done("", "", 0)
     ELSE IF "get_movie_by_id" \notin HandlersImports
       THEN done("Download error.", "An error occurred. Please try again later.", 0)
     ELSE IF ~got.found
       THEN done("", "Movie not found. It may have been deleted.", 0)
     ELSE IF "process_file" \notin HandlersImports
       THEN done("Download error.", "An error occurred. Please try again later.", 0)
     ELSE \E success \in BOOLEAN :
            IF success THEN done("Download started!", "", user_id)
            ELSE done("Download failed.", "", 0)

(***************************************************************************)
(* SpecUser: searches and button presses against an indexed catalog        *)
(***************************************************************************)
\* the granularity of the clock and the last instant modelled, in seconds
TickSeconds == 15

MaxTime == 30

S_2025 == <<"2", "0", "2", "5">>

S_1921 == <<"1", "9", "2", "1">>

S_0000 == <<"0", "0", "0", "0">>

S_123 == <<"1", "2", "3">>

S_Tamil == <<"T", "a", "m", "i", "l">>

S_hindi == <<"h", "i", "n", "d", "i">>

SearchTokens == {S_kid, S_2025, S_1921, S_0000, S_123, S_Tamil, S_hindi}

\* the text messages a user sends: up to MaxTokens tokens one space apart, and
\* some with other spacing, with four tokens and with a language in capitals
SearchTexts ==
  {Join(ts, <<" ">>) : ts \in SeqsUpTo(SearchTokens, MaxTokens)}
    \cup {<<" ">>,
          <<" ", " ">> \o S_kid \o <<" ", " ", " ">> \o S_2025 \o <<" ">>,
          S_kid \o <<" ">> \o Lower(S_Tamil),
          S_2025 \o <<" ">> \o S_1921 \o <<" ">> \o S_Tamil \o <<" ">> \o S_hindi,
          S_kid \o <<" ">> \o S_1921 \o <<" ">> \o S_2025 \o <<" ">> \o S_Tamil,
          S_kid \o <<" ">> \o <<"H", "I", "N", "D", "I">> \o <<" ">> \o S_Tamil}

\* the chat that searches and presses
Searchers == {1}

\* callback data of the buttons pressed: two results, a result whose record is
\* gone, and the Cancel button of /index
PressData ==
  {S_download_ \o <<"1">>, S_download_ \o <<"2">>, S_download_ \o <<"7">>,
   <<"i", "n", "d", "e", "x", "_", "c", "a", "n", "c", "e", "l">>}

\* the catalog a completed single-pass run over the messages leaves
RECURSIVE SingleRun(_, _, _)
SingleRun(cat, msgs, channel_id) ==
  IF msgs = <<>> THEN cat
  ELSE LET msg == msgs[1]
           fields == SingleParse(msg.file_name)
       IN SingleRun(IF IsMkv(msg) /\ msg.has_name
                    THEN AddMovie(cat, fields.title, fields.year, fields.quality,
                                  FileSize(msg.size), FileId(msg), msg.id,
                                  DetectLanguage(msg.file_name), channel_id).catalog
                    ELSE cat,
                    Tail(msgs), channel_id)

S_1001 == <<"-", "1", "0", "0", "1">>

\* the databases searched: indexes present and channel -1001 indexed once; no unique
\* index and the channel indexed twice; no index at all
UserWorlds ==
  {[unique |-> TRUE, text |-> TRUE, rounds |-> 1],
   [unique |-> FALSE, text |-> TRUE, rounds |-> 2],
   [unique |-> FALSE, text |-> FALSE, rounds |-> 1]}

\* what a single-pass run by user 1 over channel -1001 leaves behind
CompletedRun ==
  [IdleRun EXCEPT !.hist = 2, !.user = 1, !.mode = S_single, !.channel = S_1001,
                  !.admins = {BotId, 1}, !.total_files = 2, !.unsupported = 1,
                  !.current = 3, !.mid_bound = TRUE]

InitUser ==
  /\ ParseIdle
  /\ UserIdle
  /\ user_data = [u \in Users |-> NoUserData]
  /\ envSet = TRUE
  /\ run = CompletedRun
  /\ reply = "indexing completed"
  /\ hist = [u \in Users |-> 0]
  /\ started = TRUE
  /\ \E w \in UserWorlds :
       /\ uniqueIndex = w.unique
       /\ textIndex = w.text
       /\ runs = w.rounds
       /\ catalog = IF w.rounds = 1
                    THEN SingleRun(<<>>, ChannelMessages(-1001), S_1001)
                    ELSE SingleRun(SingleRun(<<>>, ChannelMessages(-1001), S_1001),
                                   ChannelMessages(-1001), S_1001)

\* time passes
Tick ==
  /\ now + TickSeconds <= MaxTime
  /\ now' = now + TickSeconds
  /\ UNCHANGED <<botVars, parseVars, life, prefVars, recent_searches, search, press, pf>>

\* the texts sent in SpecUser, where searches follow one another
UserTexts ==
  {S_kid, S_kid \o <<" ">> \o S_2025, <<" ">> \o S_kid \o <<" ">> \o S_hindi, <<" ">>}

NextUser ==
  \/ \E chat_id \in Searchers, text \in UserTexts : SearchMovie(chat_id, text)
  \/ \E user_id \in Searchers, data \in PressData : ButtonCallback(user_id, data)
  \/ Tick

SpecUser == InitUser /\ [][NextUser]_vars

(***************************************************************************)
(* SpecSearch: the first search of a chat, for every bounded text          *)
(***************************************************************************)
FirstSearch ==
  \E chat_id \in Searchers, text \in SearchTexts :
    /\ ~recent_searches[chat_id].set
    /\ SearchMovie(chat_id, text)

NextSearch == FirstSearch

SpecSearch == InitUser /\ [][NextSearch]_vars

(***************************************************************************)
(* utils.py: process_file                                                  *)
(***************************************************************************)
MaxRetries == 3

\* how bot.get_file or file.download_to_path ends: normally, BadRequest with 'File
\* is too big' or 'Wrong file identifier', another BadRequest, another NetworkError
\* or TelegramError, any other exception
ApiOutcomes == {"ok", "rejected", "bad_request", "network", "exception"}

\* how the Telethon block ends: the file is there, get_messages gave no valid media
\* or raised, download_media raised
TelethonOutcomes == {"ok", "no_media", "download_error"}

\* the outer `except Exception`: return False
Failed(p) == [p EXCEPT !.pc = "done", !.result = "False"]

\* caption or "<prefix> <title> [<quality>]", stripped
CaptionText(p) ==
  IF p.caption # NoneStr THEN p.caption
  ELSE Strip(p.prefix \o <<" ">> \o p.title \o <<" ", "[">> \o p.quality \o <<"]">>)

\* a value get_user_settings returned, as process_file uses it: only its truth
\* matters when it is not a non-empty string
AsText(v) == IF v.t = "str" THEN v.s ELSE IF Truthy(v) THEN Str(v.n) ELSE NoneStr

LastAttemptOneMore(p) == p.attempt = MaxRetries

\* `attempt == max_retries - 1`, with attempt counted from 0 by range(max_retries)
LastAttempt(p) == p.attempt = MaxRetries - 1

\* get_user_settings at the head of the try block; ok = FALSE is a PyMongoError
PFSettings ==
  LET got == GetUserSettings(users, pf.chat_id)
      p1 == [pf EXCEPT !.pc = "attempt",
                       !.thumb_file_id = AsText(got.thumbnail_file_id),
                       !.prefix = AsText(got.prefix),
                       !.caption = AsText(got.caption)]
  IN
  /\ pf.pc = "start"
  /\ \E ok \in BOOLEAN :
       IF ok THEN /\ pf' = [p1 EXCEPT !.caption_text = CaptionText(p1)]
                  /\ users' = got.users
       ELSE /\ pf' = Failed(pf)
            /\ UNCHANGED users
  /\ UNCHANGED <<botVars, parseVars, life, conv, call, note, now, recent_searches, search, press>>

\* one pass of the Bot API loop.  The temporary file is named before the download
\* starts, so temp_file_path stays set when download_to_path fails.
PFAttempt ==
  /\ pf.pc = "attempt"
  /\ \E got \in ApiOutcomes, loaded \in ApiOutcomes :
       LET outcome == IF got = "ok" THEN loaded ELSE got
           last == LastAttempt(pf)
           p1 == [pf EXCEPT !.attempts_made = @ + 1,
                            !.temp_file_path = @ \/ got = "ok"]
           again == [p1 EXCEPT !.attempt = @ + 1]
       IN pf' = CASE outcome = "ok" ->
                       [p1 EXCEPT !.pc = "fallback", !.api_downloaded = TRUE,
                                  !.loop_exit = "downloaded"]
                  [] outcome = "rejected" ->
                       IF last THEN [p1 EXCEPT !.pc = "fallback", !.loop_exit = "rejected"]
                       ELSE again
                  [] outcome \in {"bad_request", "network"} ->
                       IF last THEN Failed(p1) ELSE again
                  [] OTHER -> Failed(p1)
  /\ UNCHANGED <<botVars, parseVars, life, prefVars, now, recent_searches, search, press>>

UseTelethonMut(p) == p.telethon_client

\* `if not temp_file_path and telethon_client`
UseTelethon(p) == ~p.temp_file_path /\ p.telethon_client

\* after the loop: the Telethon download, the configuration message, or neither
PFFallback ==
  LET got == GetMovieById(catalog, pf.movie_id)
      looked == [pf EXCEPT !.telethon_lookup = TRUE]
  IN
  /\ pf.pc = "fallback"
  /\ UNCHANGED <<botVars, parseVars, life, prefVars, now, recent_searches, search, press>>
  /\ IF UseTelethon(pf) THEN
       IF ~got.found \/ got.movie.channel_id = NoneStr \/ got.movie.message_id = 0
       THEN pf' = Failed(looked)
       ELSE \E t \in TelethonOutcomes :
              pf' = IF t = "ok"
                    THEN [looked EXCEPT !.pc = "deliver", !.telethon_attempted = TRUE,
                                        !.temp_file_path = TRUE,
                                        !.telethon_downloaded = TRUE]
                    ELSE Failed([looked EXCEPT !.telethon_attempted = TRUE,
                                               !.temp_file_path = @ \/ t = "download_error"])
     ELSE IF ~pf.temp_file_path THEN
       \E delivered \in BOOLEAN :
         pf' = Failed([pf EXCEPT !.config_message = TRUE, !.config_delivered = delivered])
     ELSE pf' = [pf EXCEPT !.pc = "deliver"]

\* the name of the temporary file, which is the name of the document sent
TempFileName == <<"t", "m", "p", "0", ".", "m", "k", "v">>

\* the thumbnail, whose failure is swallowed, then send_document and the result
PFDeliver ==
  /\ pf.pc = "deliver"
  /\ \E thumb_ok \in (IF pf.thumb_file_id # NoneStr THEN BOOLEAN ELSE {FALSE}),
        sent \in BOOLEAN :
       pf' = [pf EXCEPT !.pc = "done", !.thumb = thumb_ok,
                        !.thumb_error = pf.thumb_file_id # NoneStr /\ ~thumb_ok,
                        !.file_name = IF sent THEN TempFileName ELSE <<>>,
                        !.document_sent = sent,
                        !.result = IF sent THEN "True" ELSE "False"]
  /\ UNCHANGED <<botVars, parseVars, life, prefVars, now, recent_searches, search, press>>

(***************************************************************************)
(* SpecPF: one call of process_file                                        *)
(***************************************************************************)
\* the records a delivery is asked for: one indexed from channel -1001, one stored
\* without a channel id, one stored without a message id
PFCatalog ==
  << MovieDoc(1, S_kid, 1921, <<"h", "d">>, FileSize(716800), <<"5", "0", "1", ":", "7">>,
              11, NoneStr, S_1001),
     MovieDoc(2, S_kid, 1921, <<"h", "d">>, FileSize(716800), <<"5", "0", "1", ":", "7">>,
              11, NoneStr, NoneStr),
     MovieDoc(3, S_kid, 1921, <<"h", "d">>, FileSize(716800), <<"5", "0", "1", ":", "7">>,
              0, NoneStr, S_1001) >>

\* ids asked for: the three records and one that is not stored
PFMovieIds == {<<"1">>, <<"2">>, <<"3">>, <<"7">>}

\* the preference record of the user served: none, or one written by the settings
\* handlers
PFUsers ==
  {NoUser} \cup
  {[stored |-> TRUE, thumbnail_file_id |-> t, prefix |-> p, caption |-> c] :
     t \in {PyNone, PyStr(<<"t">>)}, p \in {PyNone, PyStr(<<"P", "_">>)},
     c \in {PyNone, PyStr(<<"C">>)}}

InitPF ==
  /\ ParseIdle
  /\ user_data = [u \in Users |-> NoUserData]
  /\ catalog = PFCatalog
  /\ uniqueIndex = FALSE
  /\ textIndex = FALSE
  /\ envSet \in BOOLEAN
  /\ run = IdleRun
  /\ runs = 0
  /\ reply = ""
  /\ hist = [u \in Users |-> 0]
  /\ started = TRUE
  /\ now = 0
  /\ recent_searches = [u \in Users |-> NoRecent]
  /\ search = NoSearch
  /\ press = NoPress
  /\ life = NoLife
  /\ conv = [u \in Users |-> "END"]
  /\ call = NoUpdate
  /\ note = [u \in Users |-> NoNote]
  /\ users \in {[u \in Users |-> IF u = 1 THEN r ELSE NoUser] : r \in PFUsers}
  /\ \E movie_id \in PFMovieIds,
        telethon_client \in (IF envSet THEN BOOLEAN ELSE {FALSE}) :
       pf = [NoCall EXCEPT !.pc = "start", !.chat_id = 1, !.movie_id = movie_id,
                           !.title = S_kid, !.quality = <<"h", "d">>,
                           !.telethon_client = telethon_client]

NextPF == PFSettings \/ PFAttempt \/ PFFallback \/ PFDeliver

SpecPF == InitPF /\ [][NextPF]_vars

\* process_file is a coroutine the handler awaits: each of its steps is taken
SpecPFFair == SpecPF /\ WF_vars(NextPF)

(***************************************************************************)
(* handlers.py: the settings conversation                                  *)
(***************************************************************************)
S_default == <<"d", "e", "f", "a", "u", "l", "t">>

Noted(u, update, text) == [note EXCEPT ![u] = [update |-> update, reply |-> text]]

\* the conversation handler takes an entry point only outside a conversation
SetThumbnail(u) ==
  /\ NoHandlerRunning
  /\ conv[u] = "END"
  /\ conv' = [conv EXCEPT ![u] = "SET_THUMBNAIL"]
  /\ note' = Noted(u, "/setthumbnail", "Please upload a JPEG or PNG image for your custom thumbnail or type 'default' for a default thumbnail:")
  /\ UNCHANGED <<botVars, parseVars, life, userVars, users, call>>

\* what get_file answers for a photo: a file path, or an error
PhotoIds == {<<"t">>, <<"u">>, <<"g">>, <<"e">>}

GetFile(file_id) ==
  IF file_id = <<"e">> THEN [error |-> TRUE, file_path |-> <<>>]
  ELSE IF file_id = <<"g">> THEN [error |-> FALSE, file_path |-> <<"g", ".", "g", "i", "f">>]
  ELSE [error |-> FALSE, file_path |-> file_id \o <<".", "j", "p", "g">>]

EndsWith(s, suffix) ==
  /\ Len(suffix) <= Len(s)
  /\ SubSeq(s, Len(s) - Len(suffix) + 1, Len(s)) = suffix

ImageSuffixes == {<<".", "j", "p", "g">>, <<".", "j", "p", "e", "g">>, <<".", "p", "n", "g">>}

\* the text 'default' or a photo, as the filter of the SET_THUMBNAIL state lets through
ThumbnailInputs ==
  {[photo |-> FALSE, text |-> S_default, file_id |-> <<>>]}
  \cup {[photo |-> TRUE, text |-> <<>>, file_id |-> f] : f \in PhotoIds}

HandleThumbnail(u, input) ==
  /\ NoHandlerRunning
  /\ conv[u] = "SET_THUMBNAIL"
  /\ UNCHANGED <<botVars, parseVars, life, userVars>>
  /\ IF ~input.photo /\ Lower(input.text) = S_default
     THEN LET done == UpdateUserSettings(users, PyInt(u), PyNone, PyNone, PyNone)
          IN /\ users' = done.users
             /\ call' = [made |-> TRUE, chat_id |-> PyInt(u), thumbnail_file_id |-> PyNone,
                         prefix |-> PyNone, caption |-> PyNone, raised |-> done.raised]
             /\ conv' = [conv EXCEPT ![u] = "END"]
             /\ note' = Noted(u, "default", "Custom thumbnail set to default successfully!")
     ELSE LET file == GetFile(input.file_id)
          IN IF file.error
             THEN /\ note' = Noted(u, "photo", "Error processing thumbnail. Please try again.")
                  /\ UNCHANGED <<users, call, conv>>
             ELSE IF \A x \in ImageSuffixes : ~EndsWith(Lower(file.file_path), x)
             THEN /\ note' = Noted(u, "photo", "Please upload a JPEG or PNG image.")
                  /\ UNCHANGED <<users, call, conv>>
             ELSE LET done == UpdateUserSettings(users, PyInt(u), PyStr(input.file_id), PyNone, PyNone)
                  IN /\ users' = done.users
                     /\ call' = [made |-> TRUE, chat_id |-> PyInt(u),
                                 thumbnail_file_id |-> PyStr(input.file_id),
                                 prefix |-> PyNone, caption |-> PyNone, raised |-> done.raised]
                     /\ conv' = [conv EXCEPT ![u] = "END"]
                     /\ note' = Noted(u, "photo", "Custom thumbnail set successfully!")

SetPrefix(u) ==
  /\ NoHandlerRunning
  /\ conv[u] = "END"
  /\ conv' = [conv EXCEPT ![u] = "SET_PREFIX"]
  /\ note' = Noted(u, "/setprefix", "Please enter your custom filename prefix (e.g., MyCollection_):")
  /\ UNCHANGED <<botVars, parseVars, life, userVars, users, call>>

HandlePrefix(u, text) ==
  LET stripped == Strip(text)
      prefix == IF EndsWith(stripped, <<"_">>) THEN stripped ELSE stripped \o <<"_">>
      done == UpdateUserSettings(users, PyInt(u), PyNone, PyStr(prefix), PyNone)
  IN /\ NoHandlerRunning
     /\ conv[u] = "SET_PREFIX"
     /\ users' = done.users
     /\ call' = [made |-> TRUE, chat_id |-> PyInt(u), thumbnail_file_id |-> PyNone,
                 prefix |-> PyStr(prefix), caption |-> PyNone, raised |-> done.raised]
     /\ conv' = [conv EXCEPT ![u] = "END"]
     /\ note' = Noted(u, "text", "Custom prefix set to:")
     /\ UNCHANGED <<botVars, parseVars, life, userVars>>

SetCaption(u) ==
  /\ NoHandlerRunning
  /\ conv[u] = "END"
  /\ conv' = [conv EXCEPT ![u] = "SET_CAPTION"]
  /\ note' = Noted(u, "/setcaption", "Please enter your custom caption (e.g., My favorite movie!):")
  /\ UNCHANGED <<botVars, parseVars, life, userVars, users, call>>

HandleCaption(u, text) ==
  LET caption == Strip(text)
      done == UpdateUserSettings(users, PyInt(u), PyNone, PyNone, PyStr(caption))
  IN /\ NoHandlerRunning
     /\ conv[u] = "SET_CAPTION"
     /\ users' = done.users
     /\ call' = [made |-> TRUE, chat_id |-> PyInt(u), thumbnail_file_id |-> PyNone,
                 prefix |-> PyNone, caption |-> PyStr(caption), raised |-> done.raised]
     /\ conv' = [conv EXCEPT ![u] = "END"]
     /\ note' = Noted(u, "text", "Custom caption set to:")
     /\ UNCHANGED <<botVars, parseVars, life, userVars>>

\* /viewthumbnail: a command handler registered outside the conversation
ViewThumbnail(u) ==
  LET settings == GetUserSettings(users, u)
  IN /\ NoHandlerRunning
     /\ users' = settings.users
     /\ note' = Noted(u, "/viewthumbnail",
                      IF Truthy(settings.thumbnail_file_id) THEN "Your current thumbnail"
                      ELSE "Your thumbnail is set to default (Telegram's default thumbnail will be used).")
     /\ UNCHANGED <<botVars, parseVars, life, userVars, conv, call>>

\* /cancel: registered only as the fallback of the settings conversation, so the
\* command is handled inside a conversation and left unhandled outside one
Cancel(u) ==
  /\ NoHandlerRunning
  /\ UNCHANGED <<catalog, uniqueIndex, textIndex, envSet, run, runs, reply, hist, started>>
  /\ UNCHANGED <<parseVars, life, userVars, users, call>>
  /\ IF conv[u] # "END"
     THEN /\ user_data' = SetUserData(u, FALSE, NoneStr, NoneStr)
          /\ conv' = [conv EXCEPT ![u] = "END"]
          /\ note' = Noted(u, "/cancel", "Operation cancelled.")
     ELSE /\ note' = Noted(u, "/cancel", "")
          /\ UNCHANGED <<user_data, conv>>

(***************************************************************************)
(* SpecSettings: the settings conversation                                 *)
(***************************************************************************)
SettingTexts == {<<"P">>, <<"P", "_">>, <<" ", "C", " ">>}

InitSettings ==
  /\ ParseIdle
  /\ UserIdle
  /\ user_data = [u \in Users |-> NoUserData]
  /\ catalog = <<>>
  /\ uniqueIndex = FALSE
  /\ textIndex = FALSE
  /\ envSet = TRUE
  /\ run = IdleRun
  /\ runs = 0
  /\ reply = ""
  /\ hist = [u \in Users |-> 0]
  /\ started = TRUE

\* the users who change their settings
Setters == {1}

NextSettings ==
  \E u \in Setters :
    \/ SetThumbnail(u)
    \/ \E input \in ThumbnailInputs : HandleThumbnail(u, input)
    \/ SetPrefix(u)
    \/ \E text \in SettingTexts : HandlePrefix(u, text)
    \/ SetCaption(u)
    \/ \E text \in SettingTexts : HandleCaption(u, text)
    \/ ViewThumbnail(u)
    \/ Cancel(u)

SpecSettings == InitSettings /\ [][NextSettings]_vars

(***************************************************************************)
(* SpecControl: cancelling, by button and by command, around an indexing    *)
(* session                                                                 *)
(***************************************************************************)
S_index_cancel == <<"i", "n", "d", "e", "x", "_", "c", "a", "n", "c", "e", "l">>

\* a mode text and a message forwarded from a channel, sent in the private chat
ControlUpdates ==
  {[private |-> TRUE, text |-> S_single, origin |-> NotForwarded],
   [private |-> TRUE, text |-> S_batch, origin |-> NotForwarded],
   [private |-> TRUE, text |-> NoText, origin |-> FromChannel(-1001)]}

InitControl ==
  /\ ParseIdle
  /\ UserIdle
  /\ user_data = [u \in Users |-> NoUserData]
  /\ catalog = <<>>
  /\ uniqueIndex = FALSE
  /\ textIndex = FALSE
  /\ envSet = TRUE
  /\ run = IdleRun
  /\ runs = 0
  /\ reply = ""
  /\ hist = [u \in Users |-> 0]
  /\ started = TRUE

\* updates are handled one at a time (main.py builds the application without
\* concurrent_updates), so a handler starts only when no other one is running
NextControl ==
  \/ \E u \in Setters : Index(u)
  \/ \E u \in Setters, m \in ControlUpdates :
       HandleForwardedMessage(u, u, m.text, m.origin)
  \/ SingleStep
  \/ BatchStep
  \/ FinishRun
  \/ \E u \in Setters : ButtonCallback(u, S_index_cancel)
  \/ \E u \in Setters : Cancel(u)
  \/ \E u \in Setters : SetThumbnail(u)
  \/ \E u \in Setters, input \in ThumbnailInputs : HandleThumbnail(u, input)

SpecControl == InitControl /\ [][NextControl]_vars

(***************************************************************************)
(* main.py: cleanup_recent_searches, and SpecCleanup                       *)
(***************************************************************************)
\* the age after which a record is expired, and the sleep between two passes
ExpireSeconds == 3600

SleepSeconds == 3600

\* the number of sleeps of the cleanup task that are modelled
MaxSleeps == 3

\* search_movie stamps a record with time.time(), the seconds since 1970;
\* cleanup_recent_searches reads asyncio.get_event_loop().time(), the monotonic clock
\* of the loop, which counts from an arbitrary origin (the boot of the machine on
\* Linux).  `now` is time.time() less its value at the start, and the monotonic clock
\* is behind it by the time of the boot, in seconds since 1970.
ClockOffset == 1000000

LoopTime == now - ClockOffset

\* one pass of the loop: the expired records are deleted, then the task sleeps
CleanupRecentSearches ==
  LET current_time == LoopTime
      expired == {chat_id \in Users : /\ recent_searches[chat_id].set
                                      /\ current_time - recent_searches[chat_id].time > ExpireSeconds}
  IN /\ started
     /\ now + SleepSeconds <= MaxTime + MaxSleeps * SleepSeconds
     /\ recent_searches' = [chat_id \in Users |->
                              IF chat_id \in expired THEN NoRecent ELSE recent_searches[chat_id]]
     /\ now' = now + SleepSeconds
     /\ UNCHANGED <<botVars, parseVars, life, prefVars, search, press, pf>>

\* searches in the first seconds, then nothing but the passes of the cleanup task
NextCleanup ==
  \/ \E chat_id \in Searchers, text \in UserTexts : now <= MaxTime /\ SearchMovie(chat_id, text)
  \/ Tick
  \/ CleanupRecentSearches

SpecCleanup == InitUser /\ [][NextCleanup]_vars

\* main() creates the cleanup task once the application has started, and the task
\* loops for as long as the bot runs
SpecCleanupFair == SpecCleanup /\ WF_vars(CleanupRecentSearches)

(***************************************************************************)
(* main.py: start, signals and shutdown, and SpecLife                      *)
(***************************************************************************)
\* the number of signals modelled
MaxSignals == 2

Signals == {"SIGINT", "SIGTERM"}

lifeFrame == <<botVars, parseVars, userVars, prefVars>>

\* updates are fetched, and /index handled, while the updater polls.
\* main() leaves its try block with an exception (or a cancellation) before
\* cleanup_task is bound: `cleanup_task.cancel()` in the finally block raises
\* UnboundLocalError, which the `except Exception` of the block logs, and nothing is
\* stopped.  With cleanup_task bound the block goes on to its first await.
EnterFinally(l) ==
  IF l.cleanup_task = "unbound" THEN [l EXCEPT !.pc = "left"]
  ELSE [l EXCEPT !.pc = "await cleanup_task"]

\* await application.initialize()
Initialize ==
  /\ life.pc = "initialize"
  /\ \E ok \in BOOLEAN :
       life' = IF ok THEN [life EXCEPT !.pc = "start", !.initialized = TRUE,
                                       !.was_initialized = TRUE]
               ELSE EnterFinally(life)
  /\ UNCHANGED lifeFrame

\* await application.start(), then the cleanup task is created
Start ==
  /\ life.pc = "start"
  /\ \E ok \in BOOLEAN :
       life' = IF ok THEN [life EXCEPT !.pc = "start_polling", !.running = TRUE,
                                       !.cleanup_task = "running"]
               ELSE EnterFinally(life)
  /\ UNCHANGED lifeFrame

\* await application.updater.start_polling(...), then main() installs
\* shutdown_event.set for both signals, in place of the handlers of the module
StartPolling ==
  /\ life.pc = "start_polling"
  /\ \E ok \in BOOLEAN :
       life' = IF ok THEN [life EXCEPT !.pc = "wait", !.polling = TRUE,
                                       !.handler = "shutdown_event.set"]
               ELSE EnterFinally(life)
  /\ UNCHANGED lifeFrame

\* a signal arrives while main() is suspended in an await.  The handler main()
\* installs sets the event main() waits for.  The handler of the module calls
\* handle_shutdown(loop, application) with the module's `application`, which is None:
\* it cancels every task of the loop, main() included, and then fails on
\* `application.updater`.  The cancellation ends the await main() is suspended in:
\* the operation it interrupts may or may not have taken effect.  Inside the finally
\* block only `await cleanup_task` is guarded against CancelledError.
Signal(sig) ==
  LET counted == [life EXCEPT !.signals = Append(life.signals, sig)]
      cancelled == [counted EXCEPT !.cleanup_task = IF life.cleanup_task = "unbound"
                                                    THEN "unbound" ELSE "cancelled"]
  IN
  /\ life.pc # "left"
  /\ Len(life.signals) < MaxSignals
  /\ UNCHANGED lifeFrame
  /\ IF life.handler = "shutdown_event.set"
     THEN life' = IF life.pc = "wait" THEN EnterFinally(counted) ELSE counted
     ELSE CASE life.pc = "initialize" -> life' = EnterFinally(cancelled)
            [] life.pc = "start" ->
                 \E done \in BOOLEAN : life' = EnterFinally([cancelled EXCEPT !.running = done])
            [] life.pc = "start_polling" ->
                 \E done \in BOOLEAN : life' = EnterFinally([cancelled EXCEPT !.polling = done])
            [] life.pc = "await cleanup_task" -> life' = cancelled
            [] OTHER -> life' = [cancelled EXCEPT !.pc = "left"]

\* cleanup_task.cancel() and await cleanup_task
CancelCleanupTask ==
  /\ life.pc = "await cleanup_task"
  /\ life' = [life EXCEPT !.pc = "updater.stop", !.cleanup_task = "cancelled",
                          !.stops = Append(life.stops, "cleanup_task.cancel")]
  /\ UNCHANGED lifeFrame

\* await application.updater.stop(); what the library does when the updater is not
\* polling is left open: it stops nothing, or it raises and the block is left
UpdaterStop ==
  /\ life.pc = "updater.stop"
  /\ \E raises \in (IF life.polling THEN {FALSE} ELSE BOOLEAN) :
       life' = IF raises THEN [life EXCEPT !.pc = "left"]
               ELSE [life EXCEPT !.pc = "application.stop", !.polling = FALSE,
                                 !.stops = Append(life.stops, "updater.stop")]
  /\ UNCHANGED lifeFrame

\* await application.stop()
ApplicationStop ==
  /\ life.pc = "application.stop"
  /\ life' = [life EXCEPT !.pc = "application.shutdown", !.running = FALSE,
                          !.stops = Append(life.stops, "application.stop")]
  /\ UNCHANGED lifeFrame

\* await application.shutdown()
ApplicationShutdown ==
  /\ life.pc = "application.shutdown"
  /\ life' = [life EXCEPT !.pc = "left", !.initialized = FALSE,
                          !.stops = Append(life.stops, "application.shutdown")]
  /\ UNCHANGED lifeFrame

\* main() has passed the check of the database and built the application
InitLife ==
  /\ ParseIdle
  /\ UserIdle
  /\ user_data = [u \in Users |-> NoUserData]
  /\ catalog = <<>>
  /\ uniqueIndex = FALSE
  /\ textIndex = FALSE
  /\ envSet = TRUE
  /\ run = IdleRun
  /\ runs = 0
  /\ reply = ""
  /\ hist = [u \in Users |-> 0]
  /\ started = TRUE

NextLife ==
  \/ Initialize
  \/ Start
  \/ StartPolling
  \/ \E sig \in Signals : Signal(sig)
  \/ CancelCleanupTask
  \/ UpdaterStop
  \/ ApplicationStop
  \/ ApplicationShutdown
  \/ \E u \in Users : life.polling /\ Index(u)

SpecLife == InitLife /\ [][NextLife]_vars

(***************************************************************************)
(* SpecUpdate: calls of update_user_settings with arguments of every kind   *)
(***************************************************************************)
ChatArgs == {PyInt(1), PyInt(2), PyStr(<<"1">>), PyNone}

ThumbArgs == {PyNone, PyStr(<<"t">>), PyStr(<<"u">>), PyInt(5)}

PrefixArgs == {PyNone, PyStr(<<"P", "_">>), PyInt(5)}

CaptionArgs == {PyNone, PyStr(<<"C">>), PyInt(5)}

UpdateCall ==
  \E chat_id \in ChatArgs, thumbnail_file_id \in ThumbArgs,
     prefix \in PrefixArgs, caption \in CaptionArgs :
    LET done == UpdateUserSettings(users, chat_id, thumbnail_file_id, prefix, caption)
    IN /\ users' = done.users
       /\ call' = [made |-> TRUE, chat_id |-> chat_id, thumbnail_file_id |-> thumbnail_file_id,
                   prefix |-> prefix, caption |-> caption, raised |-> done.raised]
       /\ UNCHANGED <<botVars, parseVars, life, userVars, conv, note>>

InitUpdate ==
  /\ ParseIdle
  /\ BotIdle
  /\ UserIdle

NextUpdate == UpdateCall

SpecUpdate == InitUpdate /\ [][NextUpdate]_vars

(***************************************************************************)
(* C1, C2, C3, C5: indexing                                                *)
(***************************************************************************)
\* a channel message is scanned in this step
Scanning == run.active /\ run'.current = run.current + 1

ScannedMsg == RunMessages[run.current + 1]

\* C1: a channel message is scanned, or the catalog changes, only inside a run that
\* was started for a user who had issued /index, then selected 'batch' or 'single',
\* and then forwarded a message from a channel whose id starts with '-100' and whose
\* administrators include both the bot and that user.
C1_IndexingGated ==
  [][(Scanning \/ catalog' # catalog) =>
       /\ run.active
       /\ run.hist = 2
       /\ run.mode \in {S_batch, S_single}
       /\ SubSeq(run.channel, 1, 4) = <<"-", "1", "0", "0">>
       /\ BotId \in run.admins
       /\ run.user \in run.admins]_vars

\* a gated run has scanned a message and inserted a record
C1_Witness ==
  /\ run.active
  /\ run.hist = 2
  /\ run.current > 0
  /\ Len(catalog) > 0

\* C2: the catalog never holds two records with the same (file_id, message_id)
C2_NoDuplicatePairs ==
  \A i, j \in 1..Len(catalog) :
    (catalog[i].file_id = catalog[j].file_id /\ catalog[i].message_id = catalog[j].message_id)
      => i = j

\* the message a record was built from is an MKV document of the record's channel
FromMkvMessage(r) ==
  \E ch \in {-1001, -1002, -1004} :
    /\ r.channel_id = Str(ch)
    /\ \E k \in 1..Len(ChannelMessages(ch)) :
         LET msg == ChannelMessages(ch)[k]
         IN /\ msg.id = r.message_id
            /\ FileId(msg) = r.file_id
            /\ msg.document
            /\ msg.mime = "video/x-matroska"

\* C3: a scanned message that is not a document of MIME type video/x-matroska
\* leaves the catalog (and the pending batch) unchanged and adds one to the
\* unsupported counter and to none of the indexed, duplicate and error counters;
\* every record that enters the catalog was built from an MKV document.
C3_MimeFilter ==
  [][/\ (Scanning /\ ~(ScannedMsg.document /\ ScannedMsg.mime = "video/x-matroska"))
          => (/\ catalog' = catalog
              /\ run'.movie_batch = run.movie_batch
              /\ run'.unsupported = run.unsupported + 1
              /\ run'.total_files = run.total_files
              /\ run'.duplicate = run.duplicate
              /\ run'.errors = run.errors)
     /\ (Scanning /\ ScannedMsg.document /\ ScannedMsg.mime = "video/x-matroska")
          => (run'.unsupported = run.unsupported)
     /\ \A i \in 1..Len(catalog') : i > Len(catalog) => FromMkvMessage(catalog'[i])]_vars

\* a run has skipped a non-MKV message and has indexed an MKV one
C3_Witness ==
  /\ run.unsupported = 1
  /\ run.total_files = 1
  /\ Len(catalog) > 0

LanguageKeywords ==
  {<<"t", "a", "m", "i", "l">>, <<"e", "n", "g", "l", "i", "s", "h">>, <<"h", "i", "n", "d", "i">>}

\* C5: every catalog record has a non-empty title, an integer year, a quality, a
\* size, a non-empty file identifier, an integer message id, its source channel id,
\* and no language or one of 'tamil', 'english', 'hindi' in lower case.
C5_RecordsWellFormed ==
  \A i \in 1..Len(catalog) :
    LET r == catalog[i]
    IN /\ r.title # <<>>
       /\ r.year \in Nat
       /\ r.quality # <<>>
       /\ r.file_size # <<>>
       /\ r.file_id # <<>>
       /\ r.message_id \in Int
       /\ r.channel_id \in {Str(ch) : ch \in {-1001, -1002, -1004}}
       /\ r.language \in LanguageKeywords \cup {NoneStr}

(***************************************************************************)
(* C4: filename fields                                                     *)
(***************************************************************************)
\* positions of '_' in s, and the k-th of them (Len(s) + 1 when there is none)
UnderscoreAt(s) == {i \in 1..Len(s) : s[i] = "_"}

KthUnderscore(s, k) ==
  IF Cardinality(UnderscoreAt(s)) >= k
  THEN CHOOSE i \in UnderscoreAt(s) : Cardinality({j \in UnderscoreAt(s) : j < i}) = k - 1
  ELSE Len(s) + 1

\* the k-th '_'-separated segment of s, for k no larger than the number of segments
Segment(s, k) ==
  SubSeq(s, (IF k = 1 THEN 0 ELSE KthUnderscore(s, k - 1)) + 1, KthUnderscore(s, k) - 1)

SegmentCount(s) == Cardinality(UnderscoreAt(s)) + 1

\* s with every '.' turned into a space and the outer spaces cut off
DotsToSpacesTrimmed(s) ==
  LET t == [i \in 1..Len(s) |-> IF s[i] = "." THEN " " ELSE s[i]]
      solid == {i \in 1..Len(t) : t[i] # " "}
  IN IF solid = {} THEN <<>>
     ELSE SubSeq(t, CHOOSE i \in solid : \A j \in solid : i <= j,
                    CHOOSE i \in solid : \A j \in solid : i >= j)

RECURSIVE Pow10(_)
Pow10(n) == IF n = 0 THEN 1 ELSE 10 * Pow10(n - 1)

RECURSIVE DecimalSum(_, _)
DecimalSum(s, i) ==
  IF i > Len(s) THEN 0 ELSE DigitVal(s[i]) * Pow10(Len(s) - i) + DecimalSum(s, i + 1)

AllDecimal(s) == Len(s) > 0 /\ {s[i] : i \in 1..Len(s)} \subseteq Digits

ExpectedFields(file_name) ==
  LET stem == Replace(file_name, DotMkv, <<>>)
  IN [title   |-> DotsToSpacesTrimmed(Segment(stem, 1)),
      year    |-> IF SegmentCount(stem) >= 2 /\ AllDecimal(Segment(stem, 2))
                  THEN DecimalSum(Segment(stem, 2), 1) ELSE 0,
      quality |-> IF SegmentCount(stem) >= 3 THEN Segment(stem, 3) ELSE Unknown]

\* C4: for every file name, the batch and the single-pass indexer both compute
\* title = first '_' segment of the name without '.mkv', dots as spaces, trimmed;
\* year = second segment as an integer when it exists and is all digits, else 0;
\* quality = third segment when it exists, else 'Unknown'.
C4_ParseFields ==
  pDone => /\ pBatch = ExpectedFields(pName)
           /\ pSingle = ExpectedFields(pName)
           /\ pBatch = pSingle

\* a name ending in '.mkv' with a digit year and a quality segment has been parsed
C4_Witness ==
  /\ pDone
  /\ Contains(pName, DotMkv)
  /\ pBatch.year = 1
  /\ pBatch.quality = <<"a">>
  /\ pSingle.quality = <<"a">>

(***************************************************************************)
(* C6, C7, C8: search                                                      *)
(***************************************************************************)
FourDigitAt(toks) == {i \in 1..Len(toks) : Len(toks[i]) = 4 /\ AllDecimal(toks[i])}

LanguageAt(toks) == {i \in 1..Len(toks) : Lower(toks[i]) \in LanguageKeywords}

Least(S) == CHOOSE i \in S : \A j \in S : i <= j

Greatest(S) == CHOOSE i \in S : \A j \in S : j <= i

WithoutAt(toks, k) == [i \in 1..Len(toks) - 1 |-> IF i < k THEN toks[i] ELSE toks[i + 1]]

\* what the claim says a query is split into
ExpectedTokens(query) ==
  LET toks == SplitWs(query)
      years == FourDigitAt(toks)
      rest == IF years = {} THEN toks ELSE WithoutAt(toks, Least(years))
      langs == LanguageAt(rest)
      names == SelectSeq([i \in 1..Len(rest) |-> IF i \in langs THEN <<>> ELSE rest[i]],
                         LAMBDA t : t # <<>>)
  IN [year |-> IF years = {} THEN NoneYear ELSE DecimalSum(toks[Least(years)], 1),
      language |-> IF langs = {} THEN NoneStr ELSE Lower(rest[Greatest(langs)]),
      movie_name |-> Join(names, <<" ">>)]

\* C6: whenever search_movie queries the store, the year it passes is the first
\* four-digit token of the query (none if there is none), the language is the last
\* token that is 'tamil', 'english' or 'hindi' ignoring case, in lower case (none if
\* there is none), and the name is the other tokens, later four-digit tokens
\* included, in their order and one space apart.
C6_Tokenization ==
  search.called =>
    /\ search.year = ExpectedTokens(search.query).year
    /\ search.language = ExpectedTokens(search.query).language
    /\ search.movie_name = ExpectedTokens(search.query).movie_name

\* a query with two four-digit tokens and two different language tokens
C6_Witness ==
  /\ search.called
  /\ Cardinality(FourDigitAt(SplitWs(search.query))) = 2
  /\ Cardinality({Lower(SplitWs(search.query)[i]) : i \in LanguageAt(SplitWs(search.query))}) = 2
  /\ search.year = 2025
  /\ search.movie_name = S_1921
  /\ search.language = S_hindi

\* search_movies returned a list instead of raising
SearchReturned == search.outcome \in {"results", "No movies found. Try another search."}

Words(text) == {Lower(SplitWs(text)[i]) : i \in 1..Len(SplitWs(text))}

\* the records that match the name and the language of the last search
NameLanguageMatches ==
  SelectSeq(catalog, LAMBDA r : /\ Words(search.movie_name) \subseteq Words(r.title)
                                /\ (search.language # NoneStr => r.language = search.language))

YearMatches == SelectSeq(NameLanguageMatches, LAMBDA r : r.year = search.year)

C8_ResultButtons ==
  (SearchReturned /\ search.found # <<>>) =>
    /\ search.outcome = "results"
    /\ Len(search.buttons) = Len(search.found)
    /\ \A i \in 1..Len(search.found) :
         search.buttons[i].callback_data = S_download_ \o Str(search.found[i].id)
    /\ search.total_results = Len(search.buttons)
    /\ Len(search.buttons) <= ResultLimit

\* more records match than the store returns, and the reply has ResultLimit buttons
C8_Witness ==
  /\ search.outcome = "results"
  /\ Len(NameLanguageMatches) > ResultLimit
  /\ Len(search.buttons) = ResultLimit
  /\ search.buttons[2].callback_data # search.buttons[1].callback_data

(***************************************************************************)
(* C9: the download button                                                 *)
(***************************************************************************)
PressedRecordExists ==
  \E i \in 1..Len(catalog) : press.data = S_download_ \o Str(catalog[i].id)

\* C9: a press of 'download_<id>' is answered exactly once; if the record exists the
\* answer is 'Download started!' (the file went to the user who pressed) or
\* 'Download failed.'; if it does not, the reply is 'Movie not found' and no document
\* is sent.
C9_DownloadPress ==
  (press.user # 0 /\ StartsWith(press.data, S_download_)) =>
    /\ press.answers = 1
    /\ PressedRecordExists =>
         /\ press.answer_text \in {"Download started!", "Download failed."}
         /\ (press.answer_text = "Download started!") => (press.document_to = press.user)
    /\ ~PressedRecordExists =>
         /\ press.reply = "Movie not found. It may have been deleted."
         /\ press.document_to = 0

(***************************************************************************)
(* C10: the secondary client in process_file                               *)
(***************************************************************************)
PFRecord == GetMovieById(catalog, pf.movie_id)

\* the first two parts of C10: the Telethon download is attempted only after the Bot
\* API loop ended on a 'File is too big' or 'Wrong file identifier' rejection
\* without a downloaded file and only for a record with a channel id and a message
\* id; after a Bot API download the secondary client is not used at all.
C10_OnlyAfterRejection ==
  /\ pf.telethon_attempted =>
       /\ pf.loop_exit = "rejected"
       /\ ~pf.api_downloaded
       /\ PFRecord.found
       /\ PFRecord.movie.channel_id # NoneStr
       /\ PFRecord.movie.message_id # 0
  /\ pf.api_downloaded => (~pf.telethon_lookup /\ ~pf.telethon_attempted)

Served == users[pf.chat_id]

\* C11: in every delivery the stored thumbnail, when one is set and could be fetched,
\* is attached; the stored caption, when one is set, is the caption of the document;
\* and the stored prefix, when one is set, begins the name of the file delivered or
\* its caption, whether a caption is set or not.
C11_PreferencesApplied ==
  pf.document_sent =>
    /\ (Truthy(Served.thumbnail_file_id) /\ ~pf.thumb_error) => pf.thumb
    /\ Truthy(Served.caption) => (pf.caption_text = Served.caption.s)
    /\ Truthy(Served.prefix) =>
         (StartsWith(pf.file_name, Served.prefix.s) \/ StartsWith(pf.caption_text, Served.prefix.s))

(***************************************************************************)
(* C12: the frame of update_user_settings                                  *)
(***************************************************************************)
\* an argument of a type the preference record is not meant to hold
InvalidUpdate(a) ==
  \/ a.chat_id.t # "int"
  \/ a.thumbnail_file_id.t \notin {"None", "str"}
  \/ a.prefix.t \notin {"None", "str"}
  \/ a.caption.t \notin {"None", "str"}

Given(arg, old) == IF arg.t # "None" THEN arg ELSE old

\* C12: a call of update_user_settings with an argument of an invalid type raises
\* and changes nothing; any other call overwrites, in the record of the chat, exactly
\* the fields given as non-None and leaves the other fields, the other records and
\* the catalog as they were.
C12_UpdateFrame ==
  [][(call' # call \/ users' # users) =>
       /\ catalog' = catalog
       /\ IF InvalidUpdate(call')
          THEN call'.raised # "" /\ users' = users
          ELSE /\ call'.raised = ""
               /\ \A u \in Users \ {call'.chat_id.n} : users'[u] = users[u]
               /\ LET old == users[call'.chat_id.n]
                      new == users'[call'.chat_id.n]
                  IN /\ new.thumbnail_file_id = Given(call'.thumbnail_file_id, old.thumbnail_file_id)
                     /\ new.prefix = Given(call'.prefix, old.prefix)
                     /\ new.caption = Given(call'.caption, old.caption)]_vars

(***************************************************************************)
(* C13: 'default' in the thumbnail conversation                            *)
(***************************************************************************)
DefaultConfirmed(u) ==
  note[u] = [update |-> "default", reply |-> "Custom thumbnail set to default successfully!"]

\* C13: when the bot has just confirmed 'default' to a user in the thumbnail
\* conversation, that user's stored thumbnail is empty, so that /viewthumbnail
\* reports the default and a delivery attaches no custom thumbnail.
C13_DefaultClearsThumbnail ==
  \A u \in Users : DefaultConfirmed(u) => ~Truthy(users[u].thumbnail_file_id)

(***************************************************************************)
(* C14, C15: cancelling                                                    *)
(***************************************************************************)
\* C14: when a press of the 'index_cancel' button by a user whose indexing is armed
\* has been handled, the indexing flag of the user is False, their channel and mode are cleared (so that a scan stops
\* before its next message) and the message has become 'Indexing cancelled.'.
C14_IndexCancel ==
  [][(/\ press' # press
      /\ press'.data = S_index_cancel
      /\ user_data[press'.user].indexing) =>
       /\ user_data'[press'.user] = NoUserData
       /\ press'.reply = "Indexing cancelled."]_vars

\* C15: when a /cancel sent inside a settings conversation or with indexing armed has
\* been handled, the user is in no conversation, their indexing flag is False, their
\* channel and mode are cleared and they have received 'Operation cancelled.'.
C15_CancelCommand ==
  [][\A u \in Users :
       (/\ note'[u] # note[u]
        /\ note'[u].update = "/cancel"
        /\ conv[u] # "END" \/ user_data[u].indexing) =>
         /\ conv'[u] = "END"
         /\ user_data'[u] = NoUserData
         /\ note'[u].reply = "Operation cancelled."]_vars

(***************************************************************************)
(* C19: the indexing session is reset however the handler ends             *)
(***************************************************************************)
\* C19: handle_forwarded_message records the channel just before it sends the
\* 'Starting ... indexing process' message; when it is no longer running, no user
\* has a channel recorded (the flag, the channel and the mode were reset) and the
\* Telethon client is not connected.
C19_SessionReset ==
  (started /\ ~run.active) =>
    /\ ~run.connected
    /\ \A u \in Users : user_data[u].index_channel_id = NoneStr

(***************************************************************************)
(* C16: the rate limiter of search_movie                                   *)
(***************************************************************************)
S_wait == "Please wait before repeating the same search."

\* C16: a search is rejected with 'Please wait before repeating the same search.',
\* without a query of the store and without a change of the record, exactly when the
\* record of the chat holds the same text, recorded less than 30 seconds earlier;
\* otherwise the query and the time are recorded and the search goes on (to the store,
\* unless the text is empty).  So an executed search that repeats the recorded text
\* comes at least 30 seconds after it.
C16_RateLimit ==
  [][(now' = now /\ search'.outcome # "") =>
       \A chat_id \in Searchers :
         LET last == recent_searches[chat_id]
             query == search'.query
             recent == last.set /\ last.query = query /\ now - last.time < RateWindow
         IN IF recent
            THEN /\ search'.outcome = S_wait
                 /\ ~search'.called
                 /\ recent_searches' = recent_searches
            ELSE /\ search'.outcome # S_wait
                 /\ recent_searches'[chat_id] = [set |-> TRUE, query |-> query, time |-> now]
                 /\ (query # <<>>) => search'.called
                 /\ (last.set /\ last.query = query) => (now - last.time >= RateWindow)]_vars

\* a repetition was rejected some time after the search it repeats
C16_Witness ==
  \E chat_id \in Searchers :
    /\ search.outcome = S_wait
    /\ recent_searches[chat_id].set
    /\ recent_searches[chat_id].query = search.query
    /\ recent_searches[chat_id].time < now

OrderlyStops ==
  <<"cleanup_task.cancel", "updater.stop", "application.stop", "application.shutdown">>

\* C18: when main() has left after a signal that came once the application was
\* initialized, the cleanup task was cancelled and the updater stopped, the
\* application stopped and the application shut down, in this order and each once;
\* and whenever main() has left, no initialized application is left without its
\* shutdown.
C18_OrderlyShutdown ==
  life.pc = "left" =>
    /\ (life.signals # <<>> /\ life.was_initialized) => (life.stops = OrderlyStops)
    /\ ~life.initialized

(***************************************************************************)
(* C20: the retries of process_file                                        *)
(***************************************************************************)
C20_Retries ==
  /\ pf.attempts_made <= MaxRetries
  /\ pf.api_downloaded => (pf.pc # "attempt" /\ pf.loop_exit = "downloaded")
  /\ (pf.pc = "done") => (pf.result \in {"True", "False"})
  /\ (pf.result = "True") => pf.document_sent
  /\ (pf.pc = "done" /\ ~pf.document_sent) => (pf.result = "False")

====
